---------------------------- MODULE Spec2Model ----------------------------
(***************************************************************************)
(* A top-to-bottom run of book/geospatial/rioxarray.ipynb.                 *)
(*                                                                         *)
(* The notebook is a list of code cells; each cell is a list of            *)
(* statements, transcribed below in file order.  A run executes the cells  *)
(* in order; a statement either completes or raises, and an exception      *)
(* ends the run (the notebook has no try/except).  Objects returned by     *)
(* the libraries live in heap, names of the kernel namespace in env, the   *)
(* library calls made so far in calls and the I/O they performed in        *)
(* effects.  Coordinates are written in thousandths of a degree so that    *)
(* they are integers (-115.391 is -115391).                                *)
(***************************************************************************)
EXTENDS Integers, Sequences, FiniteSets, TLC

VARIABLES pc, status, error, env, heap, calls, effects, executed, remote

vars == <<pc, status, error, env, heap, calls, effects, executed, remote>>

(***************************************************************************)
(* Names of the kernel namespace the notebook binds.                       *)
(***************************************************************************)
Names ==
    {"rioxarray", "xr", "plt", "url", "data", "data_reprojected", "bbox",
     "clipped_data", "gpd", "geojson_path", "bounds", "clipped_data2",
     "resampled_data", "min_x", "max_x", "min_y", "max_y", "subset",
     "fig", "ax"}

(* What the two remote files may contain: the CRS of the raster behind url *)
(* and of the boundary file behind geojson_path.                           *)
RasterCRS == {"EPSG:32611", "EPSG:4326", "EPSG:3857"}

VectorCRS == {"EPSG:32611", "EPSG:4326"}

(* Pixel size of the raster behind url (LC09_039035_20240708_90m.tif).     *)
NativeRes == 90

(***************************************************************************)
(* Statements.  fn is the function called (or import / literal / unpack    *)
(* for the three statement forms that call nothing), mod the module name   *)
(* it is reached through, recv the name of the receiver ("<expr>" for the  *)
(* value of the call just before it in a chained expression), binds the    *)
(* assignment targets, crs / crsOf a literal CRS argument or the name      *)
(* whose .crs is passed, nums / argNames literal numbers or the names      *)
(* whose values are passed, text / textOf likewise for strings, uses any   *)
(* other name the statement reads.                                         *)
(***************************************************************************)
Stmt(fn) ==
    [fn |-> fn, mod |-> "", recv |-> "", binds |-> <<>>, uses |-> {},
     crs |-> "", crsOf |-> "", resolution |-> <<>>, resampling |-> "",
     nums |-> <<>>, argNames |-> <<>>, text |-> "", textOf |-> ""]

Import(module, as) ==
    [Stmt("import") EXCEPT !.text = module, !.binds = <<as>>]

Inspect(fn, name) ==
    [Stmt(fn) EXCEPT !.recv = name]

Plt(fn, label) ==
    [Stmt(fn) EXCEPT !.mod = "plt", !.text = label]

(* # %pip install rioxarray rasterio                                       *)
Cell1Source == <<>>

(* The imports without matplotlib.pyplot.                                  *)
Cell3SourceNoPlt ==
    << Import("rioxarray", "rioxarray"),
       Import("xarray", "xr"),
       [Stmt("set_options") EXCEPT !.mod = "xr"] >>

Cell3Source ==
    << Import("rioxarray", "rioxarray"),
       Import("xarray", "xr"),
       Import("matplotlib.pyplot", "plt"),
       [Stmt("set_options") EXCEPT !.mod = "xr"] >>

Cell5Source ==
    << [Stmt("literal") EXCEPT !.binds = <<"url">>,
            !.text = "https://github.com/opengeos/datasets/releases/download/raster/LC09_039035_20240708_90m.tif"],
       [Stmt("open_rasterio") EXCEPT !.mod = "rioxarray", !.textOf = "url",
            !.binds = <<"data">>],
       Inspect("display", "data") >>

Cell7Source == << Inspect("dims", "data") >>

Cell8Source == << Inspect("coords", "data") >>

Cell9Source == << Inspect("attrs", "data") >>

Cell11Source == << Inspect("crs", "data") >>

Cell12Source == << Inspect("transform", "data") >>

(* The reprojection assigned back to data.                                 *)
Cell14SourceRebind ==
    << [Stmt("reproject") EXCEPT !.recv = "data", !.crs = "EPSG:4326",
            !.binds = <<"data">>],
       Inspect("crs", "data") >>

Cell14Source ==
    << [Stmt("reproject") EXCEPT !.recv = "data", !.crs = "EPSG:4326",
            !.binds = <<"data_reprojected">>],
       Inspect("crs", "data_reprojected") >>

(* The bounding box applied to the raster as loaded.                       *)
Cell16SourceOnData ==
    << [Stmt("literal") EXCEPT !.binds = <<"bbox">>,
            !.nums = <<-115391, 35982, -114988, 36425>>],
       [Stmt("clip_box") EXCEPT !.recv = "data",
            !.argNames = <<"bbox">>, !.binds = <<"clipped_data">>] >>

Cell16Source ==
    << [Stmt("literal") EXCEPT !.binds = <<"bbox">>,
            !.nums = <<-115391, 35982, -114988, 36425>>],
       [Stmt("clip_box") EXCEPT !.recv = "data_reprojected",
            !.argNames = <<"bbox">>, !.binds = <<"clipped_data">>] >>

Cell17Source == << Inspect("shape", "clipped_data") >>

Cell19Source ==
    << Import("geopandas", "gpd"),
       [Stmt("literal") EXCEPT !.binds = <<"geojson_path">>,
            !.text = "https://github.com/opengeos/datasets/releases/download/places/las_vegas_bounds_utm.geojson"],
       [Stmt("read_file") EXCEPT !.mod = "gpd", !.textOf = "geojson_path",
            !.binds = <<"bounds">>],
       [Stmt("clip") EXCEPT !.recv = "data", !.uses = {"bounds"},
            !.crsOf = "bounds", !.binds = <<"clipped_data2">>] >>

Cell20Source == << Inspect("shape", "clipped_data2") >>

Cell22Source ==
    << [Stmt("reproject") EXCEPT !.recv = "data", !.crsOf = "data",
            !.resolution = <<1000, 1000>>,
            !.binds = <<"resampled_data">>] >>

Cell23Source == << Inspect("shape", "resampled_data") >>

Cell25Source ==
    << [Stmt("unpack") EXCEPT !.binds = <<"min_x", "max_x">>,
            !.nums = <<-115391, -114988>>],
       [Stmt("unpack") EXCEPT !.binds = <<"min_y", "max_y">>,
            !.nums = <<35982, 36425>>],
       [Stmt("sel") EXCEPT !.recv = "data_reprojected",
            !.argNames = <<"min_x", "max_x", "max_y", "min_y">>,
            !.binds = <<"subset">>],
       Inspect("shape", "subset") >>

Cell27Source ==
    << [Plt("figure", "") EXCEPT !.nums = <<8, 8>>],
       [Stmt("sel") EXCEPT !.recv = "data_reprojected", !.nums = <<4, 3, 2>>],
       [Stmt("imshow") EXCEPT !.recv = "<expr>", !.nums = <<0, 300>>],
       Plt("title", "Landsat Image covering Las Vegas"),
       Plt("xlabel", "Longitude"),
       Plt("ylabel", "Latitude"),
       Plt("show", "") >>

Cell29Source ==
    << [Plt("figure", "") EXCEPT !.nums = <<8, 8>>],
       [Stmt("sel") EXCEPT !.recv = "clipped_data", !.nums = <<4, 3, 2>>],
       [Stmt("imshow") EXCEPT !.recv = "<expr>", !.nums = <<0, 300>>],
       Plt("title", "Landsat Image covering Las Vegas"),
       Plt("xlabel", "Longitude"),
       Plt("ylabel", "Latitude"),
       Plt("show", "") >>

Cell31Source ==
    << [Plt("subplots", "") EXCEPT !.nums = <<8, 8>>,
            !.binds = <<"fig", "ax">>],
       [Stmt("sel") EXCEPT !.recv = "data", !.nums = <<4>>],
       [Stmt("imshow") EXCEPT !.recv = "<expr>", !.uses = {"ax"},
            !.nums = <<0, 400>>, !.text = "gray"],
       [Stmt("plot") EXCEPT !.recv = "bounds", !.uses = {"ax"},
            !.text = "red"],
       Plt("title", "Raster with Vector Overlay"),
       Plt("show", "") >>

(* The export followed by opening the written file again.                  *)
Cell33SourceReadBack ==
    << [Stmt("to_raster") EXCEPT !.recv = "data",
            !.text = "output_raster.tif"],
       [Stmt("open_rasterio") EXCEPT !.mod = "rioxarray",
            !.text = "output_raster.tif"] >>

Cell33Source ==
    << [Stmt("to_raster") EXCEPT !.recv = "data",
            !.text = "output_raster.tif"] >>

(* The five exercise cells are empty.                                      *)
Cell35Source == <<>>

Cell37Source == <<>>

Cell39Source == <<>>

Cell41Source == <<>>

Cell43Source == <<>>

(* The cells with the export cell ahead of the overlay plot.               *)
CodeCellsExportEarly ==
    <<1, 3, 5, 7, 8, 9, 11, 12, 14, 16, 17, 19, 20, 22, 23, 25, 27, 29, 33,
      31, 35, 37, 39, 41, 43>>

(* The ids of the code cells, in file order.                               *)
CodeCells ==
    <<1, 3, 5, 7, 8, 9, 11, 12, 14, 16, 17, 19, 20, 22, 23, 25, 27, 29, 31,
      33, 35, 37, 39, 41, 43>>

ExerciseCells == {35, 37, 39, 41, 43}

Source(c) ==
    CASE c = 1 -> Cell1Source [] c = 3 -> Cell3Source [] c = 5 -> Cell5Source
      [] c = 7 -> Cell7Source [] c = 8 -> Cell8Source [] c = 9 -> Cell9Source
      [] c = 11 -> Cell11Source [] c = 12 -> Cell12Source
      [] c = 14 -> Cell14Source [] c = 16 -> Cell16Source
      [] c = 17 -> Cell17Source [] c = 19 -> Cell19Source
      [] c = 20 -> Cell20Source [] c = 22 -> Cell22Source
      [] c = 23 -> Cell23Source [] c = 25 -> Cell25Source
      [] c = 27 -> Cell27Source [] c = 29 -> Cell29Source
      [] c = 31 -> Cell31Source [] c = 33 -> Cell33Source
      [] c = 35 -> Cell35Source [] c = 37 -> Cell37Source
      [] c = 39 -> Cell39Source [] c = 41 -> Cell41Source
      [] c = 43 -> Cell43Source

IndexOf(c) == CHOOSE i \in DOMAIN CodeCells : CodeCells[i] = c

(* The cell a run executes after cell c; 0 after the last one.             *)
NextCell(c) ==
    IF IndexOf(c) = Len(CodeCells) THEN 0 ELSE CodeCells[IndexOf(c) + 1]

(* The cells that come before cell c in the file.                          *)
CellsBefore(c) == {CodeCells[i] : i \in 1..(IndexOf(c) - 1)}

(***************************************************************************)
(* The notebook section a code cell stands in, from the markdown headings: *)
(* 0 installation and imports, 1 Loading Georeferenced Raster Data,        *)
(* 2 Inspecting the Dataset / Checking CRS and Transform Information,      *)
(* 3 Basic Geospatial Operations / Working with Spatial Dimensions,        *)
(* 4 Visualization of Georeferenced Data, 5 Saving Data, 6 Exercises.      *)
(***************************************************************************)
SectionPhase(c) ==
    IF c <= 3 THEN 0
    ELSE IF c = 5 THEN 1
    ELSE IF c <= 12 THEN 2
    ELSE IF c <= 25 THEN 3
    ELSE IF c <= 31 THEN 4
    ELSE IF c = 33 THEN 5
    ELSE 6

LoadFns == {"open_rasterio", "read_file"}

InspectFns == {"display", "dims", "coords", "attrs", "crs", "transform", "shape"}

TransformFns == {"reproject", "clip_box", "clip", "sel"}

PlotFns == {"figure", "subplots", "imshow", "plot", "title", "xlabel", "ylabel", "show"}

ExportFns == {"to_raster"}

(* The phase a library call belongs to by what it does.                    *)
Phase(fn) ==
    IF fn \in LoadFns THEN 1
    ELSE IF fn \in InspectFns THEN 2
    ELSE IF fn \in TransformFns THEN 3
    ELSE IF fn \in PlotFns THEN 4
    ELSE IF fn \in ExportFns THEN 5
    ELSE 0

(* import, a literal assignment and a tuple assignment call no library.    *)
IsCall(fn) == fn \notin {"import", "literal", "unpack"}

(* A literal or tuple assignment cannot raise; everything else can.        *)
CanRaise(s) == s.fn \notin {"literal", "unpack"}

(***************************************************************************)
(* Library objects.  by is the function that returned the object and from  *)
(* the object it was derived from (0 for none): the libraries return a     *)
(* new object from reproject, clip_box, clip and sel and leave the         *)
(* receiver as it was.                                                     *)
(***************************************************************************)
Obj(kind, crs, res, by, from, nums, text) ==
    [kind |-> kind, crs |-> crs, res |-> res, by |-> by, from |-> from,
     nums |-> nums, text |-> text]

RECURSIVE ValuesOf(_, _, _)
(* The numbers held by the names ns, concatenated in order.                *)
ValuesOf(ns, e, h) ==
    IF ns = <<>> THEN <<>>
    ELSE h[e[Head(ns)]].nums \o ValuesOf(Tail(ns), e, h)

SeqRange(q) == {q[i] : i \in DOMAIN q}

(* The names a statement reads.                                            *)
Reads(s) ==
    (({s.mod, s.recv, s.crsOf, s.textOf} \cup SeqRange(s.argNames)) \cup s.uses)
        \ {"", "<expr>"}

(* The library call a statement makes, with its arguments evaluated.       *)
CallOf(s, st) ==
    [cell |-> st.cell, fn |-> s.fn, recv |-> s.recv,
     obj |-> IF s.recv = "" THEN 0
             ELSE IF s.recv = "<expr>" THEN st.tmp ELSE st.env[s.recv],
     crs |-> IF s.crsOf # "" THEN st.heap[st.env[s.crsOf]].crs ELSE s.crs,
     resolution |-> s.resolution,
     resampling |-> s.resampling,
     nums |-> s.nums \o ValuesOf(s.argNames, st.env, st.heap),
     text |-> IF s.textOf # "" THEN st.heap[st.env[s.textOf]].text ELSE s.text]

(* The objects a statement creates.                                        *)
Result(s, call, h) ==
    CASE s.fn = "import" -> << Obj("module", "", 0, "import", 0, <<>>, s.text) >>
      [] s.fn = "literal" -> << Obj("value", "", 0, "literal", 0, s.nums, s.text) >>
      [] s.fn = "unpack" ->
            [i \in 1..Len(s.binds) |->
                Obj("value", "", 0, "literal", 0, <<s.nums[i]>>, "")]
      [] s.fn = "open_rasterio" ->
            << Obj("raster", remote.raster, NativeRes, s.fn, 0, <<>>, call.text) >>
      [] s.fn = "read_file" ->
            << Obj("vector", remote.vector, 0, s.fn, 0, <<>>, call.text) >>
      [] s.fn = "reproject" ->
            << Obj("raster", call.crs,
                   IF call.resolution # <<>> THEN call.resolution[1]
                   ELSE IF call.crs = h[call.obj].crs THEN h[call.obj].res
                   ELSE 0,
                   s.fn, call.obj, <<>>, "") >>
      [] s.fn \in {"clip_box", "clip", "sel"} ->
            << Obj("raster", h[call.obj].crs, h[call.obj].res, s.fn, call.obj,
                   call.nums, "") >>
      [] s.fn = "figure" -> << Obj("figure", "", 0, s.fn, 0, call.nums, "") >>
      [] s.fn = "subplots" ->
            << Obj("figure", "", 0, s.fn, 0, call.nums, ""),
               Obj("axes", "", 0, s.fn, 0, <<>>, "") >>
      [] OTHER -> <<>>

(* The I/O a call performs.                                                *)
EffectOf(call) ==
    CASE call.fn = "open_rasterio" -> << [kind |-> "read_raster", path |-> call.text] >>
      [] call.fn = "read_file" -> << [kind |-> "read_vector", path |-> call.text] >>
      [] call.fn = "to_raster" -> << [kind |-> "write", path |-> call.text] >>
      [] call.fn = "show" -> << [kind |-> "render", path |-> ""] >>
      [] OTHER -> <<>>

(***************************************************************************)
(* One statement.  Reading an unbound name raises NameError before         *)
(* anything else happens; otherwise the call is made, its objects are      *)
(* added to the heap and the targets are bound to them.                    *)
(***************************************************************************)
ExecStmt(s, st) ==
    IF \E n \in Reads(s) : st.env[n] = 0
    THEN [st EXCEPT !.err = "NameError"]
    ELSE LET call == CallOf(s, st)
             objs == Result(s, call, st.heap)
             base == Len(st.heap)
         IN  [st EXCEPT
                !.heap = st.heap \o objs,
                !.env = [n \in Names |->
                            IF \E i \in DOMAIN s.binds : s.binds[i] = n
                            THEN base + (CHOOSE i \in DOMAIN s.binds : s.binds[i] = n)
                            ELSE st.env[n]],
                !.tmp = IF s.binds = <<>> /\ objs # <<>> THEN base + 1 ELSE st.tmp,
                !.calls = IF IsCall(s.fn) THEN Append(st.calls, call) ELSE st.calls,
                !.effects = st.effects \o EffectOf(call)]

RECURSIVE RunStmts(_, _, _)
(* The first k statements of a cell, stopping at a NameError.              *)
RunStmts(stmts, k, st) ==
    IF k = 0 THEN st
    ELSE LET prev == RunStmts(stmts, k - 1, st)
         IN  IF prev.err # "" THEN prev ELSE ExecStmt(stmts[k], prev)

(* An exception caught and dropped: the run goes on with the next cell.    *)
Swallow(c) == [status |-> "running", pc |-> NextCell(c)]

(* An exception is not caught anywhere: the run stops in the cell.         *)
Propagate(c) == [status |-> "failed", pc |-> c]

(***************************************************************************)
(* One cell.  Either all its statements complete, or statement k+1 raises  *)
(* inside the library after the first k have taken effect.                 *)
(***************************************************************************)
RunCell(c) ==
    /\ status = "running"
    /\ \E k \in 0..Len(Source(c)) :
         /\ k < Len(Source(c)) => CanRaise(Source(c)[k + 1])
         /\ LET st == RunStmts(Source(c), k,
                        [env |-> env, heap |-> heap, calls |-> calls,
                         effects |-> effects, err |-> "", tmp |-> 0, cell |-> c])
                raised == k < Len(Source(c)) \/ st.err # ""
                after == IF raised THEN Propagate(c)
                         ELSE IF NextCell(c) = 0 THEN [status |-> "done", pc |-> 0]
                         ELSE [status |-> "running", pc |-> NextCell(c)]
            IN  /\ env' = st.env
                /\ heap' = st.heap
                /\ calls' = st.calls
                /\ effects' = st.effects
                /\ error' = IF st.err # "" THEN st.err
                            ELSE IF raised THEN "LibraryError" ELSE error
                /\ executed' = IF raised THEN executed ELSE executed \cup {c}
                /\ status' = after.status
                /\ pc' = after.pc
    /\ UNCHANGED remote

Cell1 ==
    /\ pc = 1
    /\ RunCell(1)

Cell3 ==
    /\ pc = 3
    /\ RunCell(3)

Cell5 ==
    /\ pc = 5
    /\ RunCell(5)

Cell7 ==
    /\ pc = 7
    /\ RunCell(7)

Cell8 ==
    /\ pc = 8
    /\ RunCell(8)

Cell9 ==
    /\ pc = 9
    /\ RunCell(9)

Cell11 ==
    /\ pc = 11
    /\ RunCell(11)

Cell12 ==
    /\ pc = 12
    /\ RunCell(12)

Cell14 ==
    /\ pc = 14
    /\ RunCell(14)

Cell16 ==
    /\ pc = 16
    /\ RunCell(16)

Cell17 ==
    /\ pc = 17
    /\ RunCell(17)

Cell19 ==
    /\ pc = 19
    /\ RunCell(19)

Cell20 ==
    /\ pc = 20
    /\ RunCell(20)

Cell22 ==
    /\ pc = 22
    /\ RunCell(22)

Cell23 ==
    /\ pc = 23
    /\ RunCell(23)

Cell25 ==
    /\ pc = 25
    /\ RunCell(25)

Cell27 ==
    /\ pc = 27
    /\ RunCell(27)

Cell29 ==
    /\ pc = 29
    /\ RunCell(29)

Cell31 ==
    /\ pc = 31
    /\ RunCell(31)

Cell33 ==
    /\ pc = 33
    /\ RunCell(33)

Cell35 ==
    /\ pc = 35
    /\ RunCell(35)

Cell37 ==
    /\ pc = 37
    /\ RunCell(37)

Cell39 ==
    /\ pc = 39
    /\ RunCell(39)

Cell41 ==
    /\ pc = 41
    /\ RunCell(41)

Cell43 ==
    /\ pc = 43
    /\ RunCell(43)

(* A fresh kernel: nothing bound, nothing called, the first cell next.     *)
Init ==
    /\ pc = CodeCells[1]
    /\ status = "running"
    /\ error = ""
    /\ env = [n \in Names |-> 0]
    /\ heap = <<>>
    /\ calls = <<>>
    /\ effects = <<>>
    /\ executed = {}
    /\ remote \in [raster : RasterCRS, vector : VectorCRS]

Next ==
    \/ Cell1 \/ Cell3 \/ Cell5 \/ Cell7 \/ Cell8 \/ Cell9 \/ Cell11 \/ Cell12
    \/ Cell14 \/ Cell16 \/ Cell17 \/ Cell19 \/ Cell20 \/ Cell22 \/ Cell23
    \/ Cell25 \/ Cell27 \/ Cell29 \/ Cell31 \/ Cell33 \/ Cell35 \/ Cell37
    \/ Cell39 \/ Cell41 \/ Cell43

Spec == Init /\ [][Next]_vars

(***************************************************************************)
(* Properties of a run.                                                    *)
(***************************************************************************)
Written == \E i \in DOMAIN effects : effects[i].kind = "write"

Count(kind) == Cardinality({i \in DOMAIN effects : effects[i].kind = kind})

Datasets ==
    {"data", "data_reprojected", "clipped_data", "clipped_data2",
     "resampled_data", "subset", "bounds"}

(* C1 as stated: the calls of a run are ordered by phase (Load, Inspect,   *)
(* Transform, Visualize, Export): no call of a later phase comes before a  *)
(* call of an earlier phase, and to_raster is the last call of the run.    *)
C1_CallsInPhaseOrder ==
    /\ \A i, j \in DOMAIN calls :
          (i < j /\ Phase(calls[i].fn) >= 1 /\ Phase(calls[j].fn) >= 1)
              => Phase(calls[i].fn) <= Phase(calls[j].fn)
    /\ status = "done" => calls[Len(calls)].fn = "to_raster"

(* C1 amended: the sections of the notebook come in phase order (the       *)
(* section of the cell making a call never decreases along the run), the   *)
(* raster load open_rasterio precedes every inspect, transform, plot and   *)
(* export call, and to_raster is the last call of the run.                 *)
C1_SectionsInPhaseOrder ==
    /\ \A i, j \in DOMAIN calls :
          i < j => SectionPhase(calls[i].cell) <= SectionPhase(calls[j].cell)
    /\ \A j \in DOMAIN calls :
          (Phase(calls[j].fn) >= 1 /\ calls[j].fn # "open_rasterio")
              => \E i \in 1..(j - 1) : calls[i].fn = "open_rasterio"
    /\ \A i \in DOMAIN calls : calls[i].fn = "to_raster" => i = Len(calls)
    /\ status = "done" => calls[Len(calls)].fn = "to_raster"

(* A complete run in which the boundary file was loaded after a transform. *)
C1_Witness ==
    /\ status = "done"
    /\ \E i, j \in DOMAIN calls :
          i < j /\ calls[i].fn = "reproject" /\ calls[j].fn = "read_file"

(* Each dataset name, once bound, denotes the object its own step made.    *)
BoundByOwnStep ==
    /\ env["data"] # 0 => heap[env["data"]].by = "open_rasterio"
    /\ env["data_reprojected"] # 0 =>
          /\ heap[env["data_reprojected"]].by = "reproject"
          /\ heap[env["data_reprojected"]].from = env["data"]
    /\ env["clipped_data"] # 0 =>
          /\ heap[env["clipped_data"]].by = "clip_box"
          /\ heap[env["clipped_data"]].from = env["data_reprojected"]
    /\ env["clipped_data2"] # 0 =>
          /\ heap[env["clipped_data2"]].by = "clip"
          /\ heap[env["clipped_data2"]].from = env["data"]
    /\ env["resampled_data"] # 0 =>
          /\ heap[env["resampled_data"]].by = "reproject"
          /\ heap[env["resampled_data"]].from = env["data"]
    /\ env["subset"] # 0 =>
          /\ heap[env["subset"]].by = "sel"
          /\ heap[env["subset"]].from = env["data_reprojected"]
    /\ \A m, n \in Names : (m # n /\ env[m] # 0) => env[m] # env[n]

(* No step rebinds a bound name or changes the object it denotes.          *)
NoRebind ==
    \A n \in Names :
        env[n] # 0 => /\ env'[n] = env[n]
                      /\ heap'[env[n]] = heap[env[n]]

(* C2: once data is bound it denotes the raster open_rasterio returned in  *)
(* every later state; reproject, clip_box, clip, the 1 km reproject and    *)
(* sel bind their results to fresh names, and no step rebinds a bound name *)
(* or changes the object a bound name denotes.                             *)
C2_NoMutationOrRebinding == []BoundByOwnStep /\ [][NoRebind]_vars

(* All six datasets are bound and the run has gone on past them.           *)
C2_Witness ==
    /\ \A n \in Datasets : env[n] # 0
    /\ pc = 33
    /\ heap[env["data"]].crs # heap[env["data_reprojected"]].crs

(* C3: the dataset passed to to_raster("output_raster.tif") was produced   *)
(* by a transformation step (reproject, clip_box, clip or sel), it is not  *)
(* the raster as loaded.                                                   *)
C3_SavedDataIsProcessed ==
    \A i \in DOMAIN calls :
        calls[i].fn = "to_raster" =>
            /\ calls[i].text = "output_raster.tif"
            /\ heap[calls[i].obj].by \in TransformFns

(* C4: the call that produces resampled_data asks for a resolution of      *)
(* (1000, 1000) in the dataset's own CRS and selects average resampling.   *)
C4_ResampleUsesAverage ==
    \A i \in DOMAIN calls :
        (calls[i].cell = 22 /\ calls[i].fn = "reproject") =>
            /\ calls[i].resolution = <<1000, 1000>>
            /\ calls[i].crs = heap[calls[i].obj].crs
            /\ calls[i].resampling = "average"

(* C5: whenever clip_box is called its receiver is data_reprojected, whose *)
(* CRS is EPSG:4326, and its four arguments are longitude/latitude degrees *)
(* in the order minx, miny, maxx, maxy with minx < maxx and miny < maxy.   *)
C5_BBoxInDatasetCRS ==
    \A i \in DOMAIN calls :
        calls[i].fn = "clip_box" =>
            /\ calls[i].recv = "data_reprojected"
            /\ calls[i].obj = env["data_reprojected"]
            /\ heap[calls[i].obj].crs = "EPSG:4326"
            /\ Len(calls[i].nums) = 4
            /\ calls[i].nums[1] < calls[i].nums[3]
            /\ calls[i].nums[2] < calls[i].nums[4]
            /\ \A k \in {1, 3} : calls[i].nums[k] >= -180000 /\ calls[i].nums[k] <= 180000
            /\ \A k \in {2, 4} : calls[i].nums[k] >= -90000 /\ calls[i].nums[k] <= 90000

(* clip_box has been called on a raster that was not loaded in EPSG:4326.  *)
C5_Witness ==
    /\ \E i \in DOMAIN calls : calls[i].fn = "clip_box"
    /\ env["clipped_data"] # 0
    /\ remote.raster # "EPSG:4326"

(* A failed run is one with an unhandled error, it stopped in a cell that  *)
(* did not complete, and the file is written only after every earlier code *)
(* cell completed.                                                         *)
ErrorsPropagate ==
    /\ (status = "failed") <=> (error # "")
    /\ status = "failed" => pc \notin executed
    /\ pc # 0 => executed \subseteq CellsBefore(pc)
    /\ Written => CellsBefore(33) \subseteq executed

(* C6: an error raised in any cell is not handled: the run is then failed, *)
(* no step is taken from a failed state (nothing is recovered or retried), *)
(* and output_raster.tif is written only in runs where every earlier code  *)
(* cell completed without error.                                           *)
C6_NoErrorHandling == []ErrorsPropagate /\ [][status # "failed"]_vars

(* A run that failed in the last plotting cell, with nothing written.      *)
C6_Witness ==
    /\ status = "failed"
    /\ error = "LibraryError"
    /\ pc = 31
    /\ ~Written

ExercisesAreEmpty ==
    pc \in ExerciseCells => UNCHANGED <<env, heap, calls, effects, error>>

(* C8: no cell of a top-to-bottom run reads a name that is not yet bound   *)
(* (no run fails with NameError), and the five exercise cells read and     *)
(* bind nothing.                                                           *)
C8_NamesBoundBeforeUse == [](error # "NameError") /\ [][ExercisesAreEmpty]_vars

(* A complete run: every cell, the exercise cells included, has executed.  *)
C8_Witness ==
    /\ status = "done"
    /\ executed = SeqRange(CodeCells)
    /\ \A n \in Names : env[n] # 0

=============================================================================
